---- MODULE Spec2Model ----
(***************************************************************************)
(* Master node service of crawlab-core: self-registration in the node     *)
(* registry, the monitor goroutine that pings every worker through its    *)
(* subscription, and the start / wait / stop lifecycle.                   *)
(* Source: src/node/service/master_service.go                             *)
(***************************************************************************)
EXTENDS Integers, Sequences, FiniteSets, TLC

\* ---------------------------------------------------------------- bounds
MaxWorkers == 2

\* ------------------------------------------------------------- constants
NodeKey == 0
WorkerKeys == 1..MaxWorkers

NodeStatusOnline == "online"
NodeStatusOffline == "offline"

ErrNil == "nil"
ErrNoDocuments == "no_documents"
ErrRegistryUnavailable == "registry_unavailable"
ErrDuplicateKey == "duplicate_key"
ErrorNodeMonitorError == "monitor_error"

\* 60 * time.Second
DefaultMonitorInterval == 60

VARIABLES
    registry,     \* the persisted Node rows, in insertion order (row id = position)
    subs,         \* Subscription Table of the Stream Server: keys with a live stream
    server,       \* Stream Server: "new" | "running" | "stopped"
    stopCalls,    \* how often server.Stop() ran in this process
    stopOnError,  \* svc.stopOnError
    monitorInterval, \* svc.monitorInterval, in seconds (0: shorter than a second)
    mainPc,       \* position of the task running Start()
    monPc,        \* position of the goroutine running Monitor()
    nodes,        \* monitor(): the enumerated non-master rows (copies)
    idx,          \* monitor(): position of the range loop in nodes
    isErr,        \* monitor(): error flag
    refreshed,    \* monitor(): the refresh of the master's own row succeeded in this tick
    listed,       \* monitor(): the refresh and the enumeration of this tick succeeded
    probed,       \* monitor(): what the loop body did for nodes[j] in this tick
    tickErr,      \* value returned by the last monitor() call
    regs          \* number of Register() calls that returned nil so far, counted up to two

vars == <<registry, subs, server, stopCalls, stopOnError, monitorInterval, mainPc, monPc,
          nodes, idx, isErr, refreshed, listed, probed, tickErr, regs>>

tickVars == <<nodes, idx, isErr, refreshed, listed, probed, tickErr>>

\* ------------------------------------------------------ Node Registry ops
Min(S) == CHOOSE x \in S : \A y \in S : x <= y

\* id of the row with the given key, 0 when there is none (ErrNoDocuments)
GetNodeByKey(reg, key) ==
    LET ids == {i \in DOMAIN reg : reg[i].key = key}
    IN  IF ids = {} THEN 0 ELSE Min(ids)

Add(reg, node) ==
    IF GetNodeByKey(reg, node.key) # 0
    THEN [reg |-> reg, err |-> ErrDuplicateKey]
    ELSE [reg |-> Append(reg, [node EXCEPT !.id = Len(reg) + 1]), err |-> ErrNil]

UpdateStatusOnline(reg, id) ==
    [reg EXCEPT ![id].status = NodeStatusOnline, ![id].active = TRUE]

UpdateStatusOffline(reg, id) ==
    [reg EXCEPT ![id].status = NodeStatusOffline]

\* rows matching {"is_master": false}, in registry order
GetNodeList(reg) == SelectSeq(reg, LAMBDA n : n.is_master = FALSE)

\* ------------------------------------------------------------- Register
NewMasterNode ==
    [id |-> 0, key |-> NodeKey, name |-> NodeKey, is_master |-> TRUE,
     status |-> NodeStatusOnline, enabled |-> TRUE, active |-> TRUE]

RegisterInsertsWorker(reg, getErr, saveErr) ==
    LET id == GetNodeByKey(reg, NodeKey)
    IN  IF getErr THEN [reg |-> reg, err |-> ErrRegistryUnavailable]
        ELSE IF saveErr THEN [reg |-> reg, err |-> ErrRegistryUnavailable]
        ELSE IF id = 0 THEN Add(reg, [NewMasterNode EXCEPT !.is_master = FALSE])
        ELSE [reg |-> UpdateStatusOnline(reg, id), err |-> ErrNil]

RegisterInsertsBeforeErrorCheck(reg, getErr, saveErr) ==
    LET id == GetNodeByKey(reg, NodeKey)
    IN  IF getErr
        THEN [reg |-> IF id = 0 THEN Add(reg, NewMasterNode).reg
                      ELSE UpdateStatusOnline(reg, id),
              err |-> ErrRegistryUnavailable]
        ELSE IF saveErr THEN [reg |-> reg, err |-> ErrRegistryUnavailable]
        ELSE IF id = 0 THEN Add(reg, NewMasterNode)
        ELSE [reg |-> UpdateStatusOnline(reg, id), err |-> ErrNil]

\* getErr: the lookup fails with an error other than ErrNoDocuments;
\* saveErr: the insert or the status update fails
Register(reg, getErr, saveErr) ==
    LET id == GetNodeByKey(reg, NodeKey)
    IN  IF ~getErr /\ id = 0
        THEN \* not exists
             IF saveErr THEN [reg |-> reg, err |-> ErrRegistryUnavailable]
             ELSE Add(reg, NewMasterNode)
        ELSE IF ~getErr
        THEN \* exists
             IF saveErr THEN [reg |-> reg, err |-> ErrRegistryUnavailable]
             ELSE [reg |-> UpdateStatusOnline(reg, id), err |-> ErrNil]
        ELSE \* error
             [reg |-> reg, err |-> ErrRegistryUnavailable]

\* ------------------------------------------------------------------ Init
RECURSIVE Concat(_, _, _)
Concat(f, k, last) == IF k > last THEN <<>> ELSE f[k] \o Concat(f, k + 1, last)

Renumber(reg) == [i \in DOMAIN reg |-> [reg[i] EXCEPT !.id = i]]

StatusRow(k, m, s, e) ==
    [id |-> 0, key |-> k, name |-> k, is_master |-> m, status |-> s,
     enabled |-> e, active |-> (s = NodeStatusOnline)]

\* the master's own row left by an earlier run, if any
OwnMasterRows ==
    {<<>>} \cup
    { << StatusRow(NodeKey, TRUE, s, TRUE) >> : s \in {NodeStatusOnline, NodeStatusOffline} }

\* a non-master row: online or offline; e: the rows that are online are enabled
WorkerRows(k, e) ==
    { << StatusRow(k, FALSE, NodeStatusOnline, e) >>,
      << StatusRow(k, FALSE, NodeStatusOffline, TRUE) >> }

RowChoices(first, last) ==
    UNION { { g \in [first..last -> UNION {WorkerRows(k, e) : k \in first..last}] :
                \A k \in first..last : g[k] \in WorkerRows(k, e) } : e \in BOOLEAN }

\* at most MaxWorkers non-master rows with distinct keys: either workers 1..n
\* next to the master's own row (if any), or a non-master row that carries the
\* master's own key followed by workers 1..n-1
InitRegistries ==
    UNION { { Renumber(o \o Concat(f, 1, n)) : o \in OwnMasterRows, f \in RowChoices(1, n) } :
            n \in 0..MaxWorkers }
    \cup
    UNION { { Renumber(Concat(f, 0, n - 1)) : f \in RowChoices(0, n - 1) } :
            n \in 1..MaxWorkers }

NoProbe == [res |-> "none", upd |-> "none"]

Init ==
    /\ registry \in InitRegistries
    /\ subs = {}
    /\ server = "new"
    /\ stopCalls = 0
    /\ stopOnError \in BOOLEAN
    /\ monitorInterval = DefaultMonitorInterval
    /\ mainPc = "new"
    /\ monPc = "none"
    /\ nodes = <<>>
    /\ idx = 0
    /\ isErr = FALSE
    /\ refreshed = FALSE
    /\ listed = FALSE
    /\ probed = <<>>
    /\ tickErr = ErrNil
    /\ regs = 0

CountUpToTwo(n) == IF n < 2 THEN n + 1 ELSE n

Alive == mainPc \notin {"panic", "exited"}

\* ------------------------------------------------------- Start (main task)
\* svc.server.Start(), panic on error
StartServer ==
    /\ mainPc = "new"
    /\ \E ok \in BOOLEAN :
         IF ok THEN /\ server' = "running"
                    /\ mainPc' = "server_started"
               ELSE /\ server' = server
                    /\ mainPc' = "panic"
    /\ UNCHANGED <<registry, subs, stopCalls, stopOnError, monitorInterval, monPc, tickVars, regs>>

\* svc.Register(), panic on error
StartRegister ==
    /\ mainPc = "server_started"
    /\ \E getErr \in BOOLEAN, saveErr \in BOOLEAN :
         LET r == Register(registry, getErr, saveErr)
         IN  /\ registry' = r.reg
             /\ IF r.err = ErrNil
                THEN /\ mainPc' = "registered"
                     /\ regs' = CountUpToTwo(regs)
                     /\ subs' = subs
                ELSE /\ mainPc' = "panic"
                     /\ regs' = regs
                     /\ subs' = {}
    /\ UNCHANGED <<server, stopCalls, stopOnError, monitorInterval, monPc, tickVars>>

StartMonitorBeforeRegister ==
    /\ mainPc = "server_started"
    /\ monPc = "none"
    /\ monPc' = "tick"
    /\ UNCHANGED <<registry, subs, server, stopCalls, stopOnError, monitorInterval,
                   mainPc, tickVars, regs>>

\* go svc.Monitor()
StartMonitor ==
    /\ mainPc = "registered"
    /\ mainPc' = "wait"
    /\ monPc' = "tick"
    /\ UNCHANGED <<registry, subs, server, stopCalls, stopOnError, monitorInterval, tickVars, regs>>

\* svc.Wait() returns on the quit signal; svc.Stop(); Start() returns
Stop ==
    /\ mainPc = "wait"
    /\ server' = "stopped"
    /\ subs' = {}
    /\ stopCalls' = stopCalls + 1
    /\ mainPc' = "done"
    /\ UNCHANGED <<registry, stopOnError, monitorInterval, monPc, tickVars, regs>>

\* ------------------------------------------------- Stream Server (peers)
GetSubscribe(table, key) == key \in table

\* a worker's stream is accepted and bound to its key
Connect(k) ==
    /\ Alive
    /\ server = "running"
    /\ GetNodeByKey(registry, k) # 0
    /\ k \notin subs
    /\ subs' = subs \cup {k}
    /\ UNCHANGED <<registry, server, stopCalls, stopOnError, monitorInterval, mainPc, monPc, tickVars, regs>>

\* a worker's stream ends (error or EOF)
Disconnect(k) ==
    /\ k \in subs
    /\ subs' = subs \ {k}
    /\ UNCHANGED <<registry, server, stopCalls, stopOnError, monitorInterval, mainPc, monPc, tickVars, regs>>

\* ------------------------------------------------------------- monitor()
updateMasterNodeStatus(reg, getErr, saveErr) ==
    LET id == GetNodeByKey(reg, NodeKey)
    IN  IF getErr THEN [reg |-> reg, err |-> ErrRegistryUnavailable]
        ELSE IF id = 0 THEN [reg |-> reg, err |-> ErrNoDocuments]
        ELSE IF saveErr THEN [reg |-> reg, err |-> ErrRegistryUnavailable]
        ELSE [reg |-> UpdateStatusOnline(reg, id), err |-> ErrNil]

\* the error of the update is only printed by the caller
setWorkerNodeOffline(reg, n, updErr) ==
    IF updErr THEN reg ELSE UpdateStatusOffline(reg, n.id)

UpdResult(updErr) == IF updErr THEN "err" ELSE "ok"

LoopBodyIgnoresMissingSub(reg, n, hasSub, sendOk, updErr) ==
    IF ~hasSub
    THEN [reg |-> reg, isErr |-> TRUE, res |-> "nosub", upd |-> UpdResult(updErr)]
    ELSE IF ~sendOk
    THEN [reg |-> setWorkerNodeOffline(reg, n, updErr), isErr |-> TRUE,
          res |-> "sendfail", upd |-> UpdResult(updErr)]
    ELSE [reg |-> reg, isErr |-> FALSE, res |-> "ok", upd |-> "none"]

LoopBodyIgnoresSendError(reg, n, hasSub, sendOk, updErr) ==
    IF ~hasSub
    THEN [reg |-> setWorkerNodeOffline(reg, n, updErr), isErr |-> TRUE,
          res |-> "nosub", upd |-> UpdResult(updErr)]
    ELSE IF ~sendOk
    THEN [reg |-> reg, isErr |-> TRUE, res |-> "sendfail", upd |-> UpdResult(updErr)]
    ELSE [reg |-> reg, isErr |-> FALSE, res |-> "ok", upd |-> "none"]

LoopBodyMarksOnline(reg, n, hasSub, sendOk, updErr) ==
    IF ~hasSub \/ ~sendOk
    THEN [reg |-> setWorkerNodeOffline(reg, n, updErr), isErr |-> TRUE,
          res |-> IF hasSub THEN "sendfail" ELSE "nosub", upd |-> UpdResult(updErr)]
    ELSE [reg |-> UpdateStatusOnline(reg, n.id), isErr |-> FALSE, res |-> "ok", upd |-> "none"]

\* body of the range loop for node n: GetSubscribe, then PING on its stream
LoopBody(reg, n, hasSub, sendOk, updErr) ==
    IF ~hasSub
    THEN [reg |-> setWorkerNodeOffline(reg, n, updErr), isErr |-> TRUE,
          res |-> "nosub", upd |-> UpdResult(updErr)]
    ELSE IF ~sendOk
    THEN [reg |-> setWorkerNodeOffline(reg, n, updErr), isErr |-> TRUE,
          res |-> "sendfail", upd |-> UpdResult(updErr)]
    ELSE [reg |-> reg, isErr |-> FALSE, res |-> "ok", upd |-> "none"]

BreakOnError(i, failed) == IF failed THEN Len(nodes) + 1 ELSE i + 1

\* both error branches end in `continue`: the loop goes on with the next node
Continue(i, failed) == i + 1

MonitorResultNil(flag) == ErrNil

MonitorResult(flag) == IF flag THEN ErrorNodeMonitorError ELSE ErrNil

TickHead(r, err, didRefresh, didList, l) ==
    [reg |-> r, tickErr |-> err, refreshed |-> didRefresh, listed |-> didList,
     nodes |-> l, pc |-> IF l = <<>> THEN "ret" ELSE "loop"]

refreshAndListIgnoresRefreshError(reg, getErr, saveErr, listErr) ==
    LET r == updateMasterNodeStatus(reg, getErr, saveErr)
    IN  IF listErr
        THEN TickHead(r.reg, ErrRegistryUnavailable, r.err = ErrNil, FALSE, <<>>)
        ELSE TickHead(r.reg, IF GetNodeList(r.reg) = <<>> THEN MonitorResult(FALSE) ELSE ErrNil,
                      r.err = ErrNil, TRUE, GetNodeList(r.reg))

refreshAndListEmptyIsError(reg, getErr, saveErr, listErr) ==
    LET r == updateMasterNodeStatus(reg, getErr, saveErr)
    IN  IF r.err # ErrNil
        THEN TickHead(r.reg, r.err, FALSE, FALSE, <<>>)
        ELSE IF listErr
        THEN TickHead(r.reg, ErrRegistryUnavailable, TRUE, FALSE, <<>>)
        ELSE TickHead(r.reg, IF GetNodeList(r.reg) = <<>> THEN ErrNoDocuments ELSE ErrNil,
                      TRUE, TRUE, GetNodeList(r.reg))

\* head of monitor(): the refresh of the master's own row returns its error;
\* then the enumeration, whose error is returned too; an empty enumeration
\* (or ErrNoDocuments) returns nil right away
refreshAndList(reg, getErr, saveErr, listErr) ==
    LET r == updateMasterNodeStatus(reg, getErr, saveErr)
    IN  IF r.err # ErrNil
        THEN TickHead(r.reg, r.err, FALSE, FALSE, <<>>)
        ELSE IF listErr
        THEN TickHead(r.reg, ErrRegistryUnavailable, TRUE, FALSE, <<>>)
        ELSE TickHead(r.reg, IF GetNodeList(r.reg) = <<>> THEN MonitorResult(FALSE) ELSE ErrNil,
                      TRUE, TRUE, GetNodeList(r.reg))

\* Monitor() calls monitor(): refresh of the master's own row, then the
\* enumeration
MonitorBegin ==
    /\ Alive
    /\ monPc \in {"tick", "sleep"}
    /\ \E getErr \in BOOLEAN, saveErr \in BOOLEAN, listErr \in BOOLEAN :
         LET h == refreshAndList(registry, getErr, saveErr, listErr)
         IN  /\ registry' = h.reg
             /\ isErr' = FALSE
             /\ tickErr' = h.tickErr
             /\ refreshed' = h.refreshed
             /\ listed' = h.listed
             /\ nodes' = h.nodes
             /\ idx' = IF h.listed THEN 1 ELSE 0
             /\ monPc' = h.pc
             /\ probed' = [j \in 1..Len(h.nodes) |-> NoProbe]
    /\ UNCHANGED <<subs, server, stopCalls, stopOnError, monitorInterval, mainPc, regs>>

\* monitor(): one iteration of the loop over the enumerated nodes; after the
\* last one the flag decides the returned error
MonitorProbe ==
    /\ Alive
    /\ monPc = "loop"
    /\ idx <= Len(nodes)
    /\ \E sendOk \in BOOLEAN, updErr \in BOOLEAN :
         LET n == nodes[idx]
             b == LoopBody(registry, n, GetSubscribe(subs, n.key), sendOk, updErr)
         IN  /\ registry' = b.reg
             /\ isErr' = (isErr \/ b.isErr)
             /\ probed' = [probed EXCEPT ![idx] = [res |-> b.res, upd |-> b.upd]]
             /\ idx' = Continue(idx, b.isErr)
    /\ IF idx' > Len(nodes)
       THEN /\ tickErr' = MonitorResult(isErr')
            /\ monPc' = "ret"
       ELSE /\ tickErr' = tickErr
            /\ monPc' = monPc
    /\ UNCHANGED <<subs, server, stopCalls, stopOnError, monitorInterval, mainPc, nodes,
                   refreshed, listed, regs>>

\* monitor(): the Send on the stream of nodes[idx] does not return
MonitorSendBlocks ==
    /\ Alive
    /\ monPc = "loop"
    /\ idx <= Len(nodes)
    /\ GetSubscribe(subs, nodes[idx].key)
    /\ monPc' = "blocked"
    /\ UNCHANGED <<registry, subs, server, stopCalls, stopOnError, monitorInterval,
                   mainPc, tickVars, regs>>

\* -------------------------------------------------------------- Monitor()
MonitorAfterTickAlwaysStops ==
    /\ Alive
    /\ monPc = "ret"
    /\ IF tickErr # ErrNil
       THEN /\ server' = "stopped"
            /\ subs' = {}
            /\ stopCalls' = stopCalls + 1
            /\ monPc' = "exit"
       ELSE /\ monPc' = "sleep"
            /\ UNCHANGED <<server, subs, stopCalls>>
    /\ nodes' = <<>>
    /\ idx' = 0
    /\ isErr' = FALSE
    /\ refreshed' = FALSE
    /\ listed' = FALSE
    /\ probed' = <<>>
    /\ tickErr' = ErrNil
    /\ UNCHANGED <<registry, stopOnError, monitorInterval, mainPc, regs>>

MonitorAfterTickStopsAndLoops ==
    /\ Alive
    /\ monPc = "ret"
    /\ IF tickErr # ErrNil /\ stopOnError
       THEN /\ server' = "stopped"
            /\ subs' = {}
            /\ stopCalls' = stopCalls + 1
       ELSE UNCHANGED <<server, subs, stopCalls>>
    /\ monPc' = "sleep"
    /\ nodes' = <<>>
    /\ idx' = 0
    /\ isErr' = FALSE
    /\ refreshed' = FALSE
    /\ listed' = FALSE
    /\ probed' = <<>>
    /\ tickErr' = ErrNil
    /\ UNCHANGED <<registry, stopOnError, monitorInterval, mainPc, regs>>

\* monitor() has returned: Stop() and return under stopOnError, else sleep
MonitorAfterTick ==
    /\ Alive
    /\ monPc = "ret"
    /\ IF tickErr # ErrNil /\ stopOnError
       THEN /\ server' = "stopped"
            /\ subs' = {}
            /\ stopCalls' = stopCalls + 1
            /\ monPc' = "exit"
       ELSE /\ monPc' = "sleep"
            /\ UNCHANGED <<server, subs, stopCalls>>
    /\ nodes' = <<>>
    /\ idx' = 0
    /\ isErr' = FALSE
    /\ refreshed' = FALSE
    /\ listed' = FALSE
    /\ probed' = <<>>
    /\ tickErr' = ErrNil
    /\ UNCHANGED <<registry, stopOnError, monitorInterval, mainPc, regs>>

\* ------------------------------------------------------------ the process
\* Start() has returned and the process ends: its goroutines end with it
ProcessExit ==
    /\ mainPc = "done"
    /\ mainPc' = "exited"
    /\ monPc' = "dead"
    /\ nodes' = <<>>
    /\ idx' = 0
    /\ isErr' = FALSE
    /\ refreshed' = FALSE
    /\ listed' = FALSE
    /\ probed' = <<>>
    /\ tickErr' = ErrNil
    /\ UNCHANGED <<registry, subs, server, stopCalls, stopOnError, monitorInterval, regs>>

\* the master is started again against the same Registry
Restart ==
    /\ mainPc \in {"panic", "exited"}
    /\ mainPc' = "new"
    /\ monPc' = "none"
    /\ server' = "new"
    /\ subs' = {}
    /\ stopCalls' = 0
    /\ UNCHANGED <<registry, stopOnError, monitorInterval, tickVars, regs>>

MainNext == StartServer \/ StartRegister \/ StartMonitor

MonitorNext == MonitorBegin \/ MonitorProbe \/ MonitorSendBlocks \/ MonitorAfterTick

Next ==
    \/ StartServer
    \/ StartRegister
    \/ StartMonitor
    \/ Stop
    \/ MonitorBegin
    \/ MonitorProbe
    \/ MonitorSendBlocks
    \/ MonitorAfterTick
    \/ ProcessExit
    \/ Restart
    \/ \E k \in WorkerKeys : Connect(k)
    \/ \E k \in WorkerKeys : Disconnect(k)

Spec == Init /\ [][Next]_vars

\* the code's own steps are scheduled; signals, peers and restarts are not
FairSpec == Spec /\ WF_vars(MainNext) /\ WF_vars(MonitorNext)

\* --------------------------------------------------------- configuration
Durations == 0..DefaultMonitorInterval

SetMonitorInterval(duration) ==
    /\ monitorInterval' = duration
    /\ UNCHANGED <<registry, subs, server, stopCalls, stopOnError, mainPc, monPc,
                   tickVars, regs>>

StopOnError ==
    /\ stopOnError' = TRUE
    /\ UNCHANGED <<registry, subs, server, stopCalls, monitorInterval, mainPc, monPc,
                   tickVars, regs>>

ConfigNext ==
    \/ \E duration \in Durations : SetMonitorInterval(duration)
    \/ StopOnError

\* the service is configured after construction and before it is started
ConfigSpec == Init /\ [][ConfigNext]_vars

\* ================================================================ claims
OwnKeyIds == {i \in DOMAIN registry : registry[i].key = NodeKey}

\* monitor() got past the refresh and the enumeration, ran its loop to the end
\* and has returned
TickCompleted == monPc = "ret" /\ listed

Failed(j) == probed[j].res \in {"nosub", "sendfail"}

\* C1: after the start-up registration has succeeded twice in sequence against
\* the same Registry there is exactly one row with the master's key, and that
\* row has is_master = true and status online
C1_RegisterTwiceOneMasterRow ==
    (mainPc = "registered" /\ regs = 2) =>
        /\ Cardinality(OwnKeyIds) = 1
        /\ \A i \in OwnKeyIds :
             registry[i].is_master /\ registry[i].status = NodeStatusOnline

\* C2: a Register that returns nil either appends exactly the fresh master row
\* (no row had the key) or leaves the number of rows alone and changes only the
\* row with the key, whose status becomes online (and active true)
C2_RegisterInsertsOrMarksOnline ==
    [][ (mainPc = "server_started" /\ mainPc' = "registered") =>
          IF \A i \in DOMAIN registry : registry[i].key # NodeKey
          THEN registry' = Append(registry,
                   [id |-> Len(registry) + 1, key |-> NodeKey, name |-> NodeKey,
                    is_master |-> TRUE, status |-> NodeStatusOnline,
                    enabled |-> TRUE, active |-> TRUE])
          ELSE /\ Len(registry') = Len(registry)
               /\ \A i \in DOMAIN registry :
                    registry'[i] = IF registry[i].key = NodeKey
                                   THEN [registry[i] EXCEPT !.status = NodeStatusOnline,
                                                            !.active = TRUE]
                                   ELSE registry[i] ]_vars

\* the master was started against an empty Registry and has registered
C2_Witness ==
    /\ mainPc = "registered"
    /\ regs = 1
    /\ registry = << [id |-> 1, key |-> NodeKey, name |-> NodeKey, is_master |-> TRUE,
                      status |-> NodeStatusOnline, enabled |-> TRUE, active |-> TRUE] >>

C5_EveryNodeProbed ==
    TickCompleted => \A j \in DOMAIN nodes : probed[j].res # "none"

\* the first node failed and a later one was still pinged
C5_Witness ==
    /\ TickCompleted
    /\ Len(nodes) >= 2
    /\ Failed(1)
    /\ \E j \in 2..Len(nodes) : probed[j].res = "ok"

\* C6: at the end of a tick the row of every node whose PING was sent is as it
\* was enumerated
C6_SuccessfulPingLeavesRow ==
    TickCompleted =>
        \A j \in DOMAIN nodes :
            probed[j].res = "ok" => registry[nodes[j].id] = nodes[j]

\* an offline worker was pinged, stayed offline, and another worker failed
C6_Witness ==
    /\ TickCompleted
    /\ \E j \in DOMAIN nodes, k \in DOMAIN nodes :
         /\ probed[j].res = "ok"
         /\ nodes[j].status = NodeStatusOffline
         /\ registry[nodes[j].id].status = NodeStatusOffline
         /\ Failed(k)
         /\ probed[k].upd = "ok"

\* C7: monitor() returns monitor_error when some enumerated node had no
\* subscription or a failed send, and nil when the refresh and the enumeration
\* succeeded and every PING was sent
C7_TickResult ==
    monPc = "ret" =>
        /\ (\E j \in DOMAIN nodes : Failed(j)) => tickErr = ErrorNodeMonitorError
        /\ (listed /\ \A j \in DOMAIN nodes : probed[j].res = "ok") => tickErr = ErrNil

C7_Witness ==
    /\ TickCompleted
    /\ Len(nodes) >= 2
    /\ probed[1].res = "ok"
    /\ probed[2].res = "sendfail"
    /\ tickErr = ErrorNodeMonitorError

\* C8: no monitor tick begins once Start() has run Stop() and returned
C8_NoTickAfterStop ==
    [][ mainPc = "done" => ~(monPc \in {"tick", "sleep"} /\ monPc' \in {"loop", "ret"}) ]_vars

\* C9: once the quit signal has arrived and Stop() has closed the
\* subscriptions, no worker's row changes its status
C9_WorkerStatusKeptAfterStop ==
    [][ mainPc = "done" =>
          \A i \in DOMAIN registry :
              registry[i].key \in WorkerKeys =>
                  registry'[i].status = registry[i].status ]_vars

\* C10: under stopOnError a tick that fails on the Registry leads to Start()
\* leaving its wait and returning
C10_RegistryErrorTerminates ==
    (stopOnError /\ monPc = "ret" /\ tickErr = ErrRegistryUnavailable)
        ~> (mainPc \in {"done", "exited"})

\* a monitor() call begins in this step
TickBegins == monPc \in {"tick", "sleep"} /\ monPc' \in {"loop", "ret"}

\* C11: Register runs only once the server is started, the monitor goroutine
\* is spawned only after Register has returned nil, every tick begins after
\* that (so its refresh always finds the master's row), and after a panic of
\* Start() there is no monitor
C11_StartupOrder ==
    /\ mainPc \in {"server_started", "registered"} => server = "running"
    /\ mainPc = "registered" =>
           \E i \in OwnKeyIds : registry[i].status = NodeStatusOnline
    /\ mainPc \in {"new", "server_started", "registered", "panic"} =>
           (monPc = "none" /\ nodes = <<>> /\ ~refreshed /\ ~listed)
    /\ monPc \notin {"none", "dead"} => (mainPc \in {"wait", "done"} /\ regs >= 1)
    /\ monPc = "ret" => tickErr # ErrNoDocuments

\* the first run's monitor has completed a tick after the registration
C11_Witness ==
    /\ regs = 1
    /\ mainPc = "wait"
    /\ TickCompleted
    /\ server = "running"

\* C12: a disabled worker is never probed and keeps its status in a tick
C12_DisabledNodesIgnored ==
    \A j \in DOMAIN nodes :
        (nodes[j].key \in WorkerKeys /\ ~nodes[j].enabled) =>
            /\ probed[j].res = "none"
            /\ registry[nodes[j].id].status = nodes[j].status

\* C13 as stated: without stopOnError a tick whose refresh of the master's row
\* failed still enumerates the non-master nodes
C13_TickContinuesAfterRefreshError ==
    (monPc = "ret" /\ ~stopOnError /\ ~refreshed) => listed

\* C13 amended: a tick whose refresh failed returns that error at once: it
\* enumerates nothing, probes nothing and changes no row; without stopOnError
\* the loop then sleeps, and the next tick starts with the refresh again
C13_RefreshErrorEndsTick ==
    [][ /\ (TickBegins /\ ~refreshed') =>
              /\ monPc' = "ret"
              /\ tickErr' # ErrNil
              /\ ~listed'
              /\ nodes' = <<>>
              /\ registry' = registry
        /\ (monPc = "ret" /\ ~refreshed /\ ~stopOnError /\ monPc' # "ret") =>
              (monPc' \in {"sleep", "dead"} /\ registry' = registry) ]_vars

\* the refresh failed while an online worker had no subscription
C13_Witness ==
    /\ monPc = "ret"
    /\ ~refreshed
    /\ ~stopOnError
    /\ tickErr = ErrRegistryUnavailable
    /\ \E i \in DOMAIN registry :
         /\ registry[i].key \in WorkerKeys
         /\ registry[i].key \notin subs
         /\ registry[i].status = NodeStatusOnline

\* C14: when monitor() has returned, Monitor() stops the server and returns
\* iff stopOnError is set and the tick returned an error; otherwise it sleeps
\* and leaves the server alone; it begins no tick after it has returned, and
\* the step after a sleep is the next tick
C14_LoopContinuation ==
    [][ /\ (monPc = "ret" /\ monPc' \notin {"ret", "dead"}) =>
              IF stopOnError /\ tickErr # ErrNil
              THEN monPc' = "exit" /\ server' = "stopped" /\ subs' = {}
              ELSE monPc' = "sleep" /\ server' = server /\ subs' = subs
        /\ monPc = "exit" => monPc' \in {"exit", "dead"}
        /\ (monPc = "sleep" /\ monPc' \notin {"sleep", "dead"}) => TickBegins ]_vars

\* the monitor has stopped the master after an errored tick
C14_Witness ==
    /\ monPc = "exit"
    /\ stopOnError
    /\ server = "stopped"
    /\ mainPc = "wait"

\* C15: a tick whose Send blocks still comes to its end
C15_BlockedSendTimesOut == (monPc = "blocked") ~> (monPc = "ret")

\* C16: a failed lookup makes Register return the error with the Registry as
\* it was; a step in which Start() panics changes no row and spawns no
\* monitor, and a panicked process does nothing but get started again
C16_RegisterErrorIsFatal ==
    /\ [](\A saveErr \in BOOLEAN :
            Register(registry, TRUE, saveErr) =
                [reg |-> registry, err |-> ErrRegistryUnavailable])
    /\ [][ /\ (mainPc # "panic" /\ mainPc' = "panic") =>
                 /\ mainPc \in {"new", "server_started"}
                 /\ registry' = registry
                 /\ monPc' = "none"
           /\ mainPc = "panic" =>
                 /\ mainPc' \in {"panic", "new"}
                 /\ registry' = registry
                 /\ monPc' = "none" ]_vars

\* Register failed against an empty Registry: nothing inserted, no monitor
C16_Witness ==
    /\ mainPc = "panic"
    /\ server = "running"
    /\ registry = <<>>
    /\ monPc = "none"

\* C17: the head of a tick changes no row but the one with the master's key;
\* a failed enumeration returns registry_unavailable, an empty one returns nil,
\* and both leave nothing to probe
C17_EnumerationOutcome ==
    [][ TickBegins =>
          /\ \A i \in DOMAIN registry :
                 registry[i].key # NodeKey => registry'[i] = registry[i]
          /\ (refreshed' /\ ~listed') =>
                 (monPc' = "ret" /\ tickErr' = ErrRegistryUnavailable /\ nodes' = <<>>)
          /\ (listed' /\ nodes' = <<>>) => (monPc' = "ret" /\ tickErr' = ErrNil)
          /\ (listed' /\ nodes' # <<>>) => monPc' = "loop" ]_vars

\* a tick found no non-master node and returned nil
C17_Witness ==
    /\ TickCompleted
    /\ nodes = <<>>
    /\ tickErr = ErrNil
    /\ \A i \in DOMAIN registry : registry[i].is_master

\* C18: the configured monitor interval is at least one second
C18_IntervalAtLeastOneSecond == monitorInterval >= 1

\* C19 as stated: server.Stop() runs at most once in a run of the master
C19_StopAtMostOnce == stopCalls <= 1

\* C19 amended: server.Stop() runs at most once in each task, so at most twice
\* in a run; a second call is the main task's after the monitor has stopped
\* the master under stopOnError
C19_StopAtMostOncePerTask ==
    /\ stopCalls <= 2
    /\ stopCalls >= 1 => server = "stopped"
    /\ stopCalls = 2 =>
           (stopOnError /\ monPc \in {"exit", "dead"} /\ mainPc \in {"done", "exited"})

C19_Witness ==
    /\ stopCalls = 2
    /\ mainPc = "done"
    /\ monPc = "exit"

\* C20: once the master has registered, the row with its own key is online
C20_OwnRowStaysOnline ==
    (regs >= 1 /\ mainPc \in {"registered", "wait", "done", "exited"}) =>
        \A i \in OwnKeyIds : registry[i].status = NodeStatusOnline

====
